---- MODULE Spec2Model ----
(***************************************************************************)
(* Perception-control loop of the crack-inspection drone.                  *)
(*                                                                         *)
(* Two programs are modelled, one per run (variable variant):              *)
(*   "live"   : live_detection()        in src/live_detection.py           *)
(*   "replay" : main() / video_detection_live() in                         *)
(*              src/video_detection_live.py                                *)
(* on top of DroneController (src/src/drone_controller.py) and             *)
(* TrainedCrackDetector (src/src/crack_detector.py).  The two components   *)
(* are also modelled on their own (variant "unit"): a caller that calls    *)
(* their methods in any order.                                             *)
(*                                                                         *)
(* Fault model.  A remote call on the AirSim client, the construction of   *)
(* the detector, a detector call and the rendering / presenting / saving   *)
(* part of a loop iteration may raise an Exception; KeyboardInterrupt may  *)
(* arrive while the loop runs.  These are the faults the code handles      *)
(* (its try/except blocks).  cv2.destroyAllWindows, cap.release and        *)
(* logging are taken not to raise; an interrupt is delivered between two   *)
(* iterations of the loop, and none outside the loop's try block.          *)
(*                                                                         *)
(* The confidence threshold is a float in the code; it is modelled in      *)
(* hundredths (0.05 is 5, 1.0 is 100), which leaves out binary rounding.   *)
(***************************************************************************)
EXTENDS Integers, Sequences, FiniteSets, TLC

(***************************************************************************)
(* Bounds of the exploration.                                              *)
(***************************************************************************)
\* frames processed by one run of the loop under Spec
MaxFrames == 2
\* boxes one detector call may report
MaxBoxes == 2
\* frames processed by one run under ConfSpec (long key sequences)
MaxConfFrames == 24
\* frames of the recorded video
MaxStream == 2
\* save commands of one run under MissionSpec
MaxSaves == 2

(***************************************************************************)
(* Program constants.                                                      *)
(***************************************************************************)
\* confidence_th = 0.5, in hundredths
LiveInitialConfidence == 50
\* confidence=0.4 default of the replay entry point, in hundredths
ReplayDefaultConfidence == 40
\* the 0.05 step of the +/- commands, in hundredths
ConfidenceStep == 5
\* the 1.0 / 0.0 clamps, in hundredths
ConfidenceMax == 100
ConfidenceMin == 0

Min(a, b) == IF a <= b THEN a ELSE b
Max(a, b) == IF a >= b THEN a ELSE b

(***************************************************************************)
(* DroneController.  A controller is a record                              *)
(*   client        : TRUE iff self.client is not None                      *)
(*   is_connected  : self.is_connected                                     *)
(*   home_location : "None" or the position stored by takeoff              *)
(* Every method is an operator from the controller and the outcome of the  *)
(* remote calls it makes to a record                                       *)
(*   dc    : the controller afterwards                                     *)
(*   ret   : the value returned                                            *)
(*   calls : the commands issued, in order, each [cmd, ok]                 *)
(* A method called while client is None raises AttributeError inside its   *)
(* try block: it issues no command and returns its failure value.          *)
(***************************************************************************)
NewController == [client |-> FALSE, is_connected |-> FALSE, home_location |-> "None"]

Call(cmd, ok) == [cmd |-> cmd, ok |-> ok]

\* the remote call `cmd` on self.client: issued only when there is a client
Rpc(dc, cmd, ok) == IF dc.client THEN <<Call(cmd, ok)>> ELSE <<>>

\* outcome of connect: "ok", "ctorRaise" (MultirotorClient() raises),
\* "confirmRaise" (confirmConnection raises)
ConnectOutcomes == {"ok", "ctorRaise", "confirmRaise"}

connect(dc, o) ==
    CASE o = "ok" ->
           [dc |-> [dc EXCEPT !.client = TRUE, !.is_connected = TRUE],
            ret |-> TRUE,
            calls |-> <<Call("confirmConnection", TRUE)>>]
      [] o = "ctorRaise" ->
           [dc |-> dc, ret |-> FALSE, calls |-> <<>>]
      [] OTHER ->
           [dc |-> [dc EXCEPT !.client = TRUE],
            ret |-> FALSE,
            calls |-> <<Call("confirmConnection", FALSE)>>]

\* a disconnect that forgets the flag
disconnect_keeps_flag(dc) ==
    IF dc.client
    THEN [dc |-> [dc EXCEPT !.client = FALSE],
          ret |-> "None",
          calls |-> <<Call("disconnect", TRUE)>>]
    ELSE [dc |-> dc, ret |-> "None", calls |-> <<>>]

disconnect(dc) ==
    IF dc.client
    THEN [dc |-> [dc EXCEPT !.client = FALSE, !.is_connected = FALSE],
          ret |-> "None",
          calls |-> <<Call("disconnect", TRUE)>>]
    ELSE [dc |-> dc, ret |-> "None", calls |-> <<>>]

enable_api_control(dc, ok) ==
    [dc |-> dc, ret |-> dc.client /\ ok, calls |-> Rpc(dc, "enableApiControl", ok)]

arm(dc, ok) ==
    [dc |-> dc, ret |-> dc.client /\ ok, calls |-> Rpc(dc, "arm", ok)]

disarm(dc, ok) ==
    [dc |-> dc, ret |-> dc.client /\ ok, calls |-> Rpc(dc, "disarm", ok)]

\* outcome of takeoff: "ok", "takeoffRaise" (takeoffAsync().join() raises),
\* "stateRaise" (the join returned and getMultirotorState raises)
TakeoffOutcomes == {"ok", "takeoffRaise", "stateRaise"}

\* a takeoff that stores the home position before the vehicle is airborne
takeoff_snapshot_first(dc, o, pos) ==
    IF ~dc.client
    THEN [dc |-> dc, ret |-> FALSE, calls |-> <<>>]
    ELSE CASE o = "ok" ->
                [dc |-> [dc EXCEPT !.home_location = pos],
                 ret |-> TRUE,
                 calls |-> <<Call("getMultirotorState", TRUE), Call("takeoff", TRUE)>>]
           [] o = "takeoffRaise" ->
                [dc |-> [dc EXCEPT !.home_location = pos], ret |-> FALSE,
                 calls |-> <<Call("getMultirotorState", TRUE), Call("takeoff", FALSE)>>]
           [] OTHER ->
                [dc |-> dc, ret |-> FALSE, calls |-> <<Call("getMultirotorState", FALSE)>>]

\* pos: the position getMultirotorState reports after the join
takeoff(dc, o, pos) ==
    IF ~dc.client
    THEN [dc |-> dc, ret |-> FALSE, calls |-> <<>>]
    ELSE CASE o = "ok" ->
                [dc |-> [dc EXCEPT !.home_location = pos],
                 ret |-> TRUE,
                 calls |-> <<Call("takeoff", TRUE), Call("getMultirotorState", TRUE)>>]
           [] o = "takeoffRaise" ->
                [dc |-> dc, ret |-> FALSE, calls |-> <<Call("takeoff", FALSE)>>]
           [] OTHER ->
                [dc |-> dc, ret |-> FALSE,
                 calls |-> <<Call("takeoff", TRUE), Call("getMultirotorState", FALSE)>>]

\* land: the landing command, then disarm; the result of disarm is dropped
land(dc, landOk, disarmOk) ==
    IF dc.client /\ landOk
    THEN [dc |-> dc, ret |-> TRUE,
          calls |-> <<Call("land", TRUE)>> \o disarm(dc, disarmOk).calls]
    ELSE [dc |-> dc, ret |-> FALSE, calls |-> Rpc(dc, "land", FALSE)]

\* fly_to_position: moveToPositionAsync(...).join() inside try/except
fly_to_position(dc, ok) ==
    [dc |-> dc, ret |-> dc.client /\ ok, calls |-> Rpc(dc, "moveToPosition", ok)]

\* return_to_launch: nothing without a home position; else fly_to_position
\* to it, whose result is dropped
return_to_launch(dc, ok) ==
    IF dc.home_location = "None"
    THEN [dc |-> dc, ret |-> FALSE, calls |-> <<>>]
    ELSE [dc |-> dc, ret |-> TRUE, calls |-> fly_to_position(dc, ok).calls]

\* outcome of a path command: "ok" (accepted and, when joined, followed to
\* its end), "issueRaise" (moveOnPathAsync raises), "joinRaise" (the command
\* is accepted and .join() raises before the path is complete)
PathOutcomes == {"ok", "issueRaise", "joinRaise"}

\* self.client.moveOnPathAsync(...), followed by .join() when `joined`, with
\* the path command in state p before: whether it raised, the commands
\* issued, and the state of the path when control comes back
move_on_path(dc, o, joined, p) ==
    IF ~dc.client
    THEN [raised |-> TRUE, calls |-> <<>>, path |-> p]
    ELSE CASE o = "issueRaise" ->
                [raised |-> TRUE, calls |-> <<Call("moveOnPath", FALSE)>>, path |-> p]
           [] o = "joinRaise" /\ joined ->
                [raised |-> TRUE, calls |-> <<Call("moveOnPath", TRUE)>>, path |-> "pending"]
           [] OTHER ->
                [raised |-> FALSE, calls |-> <<Call("moveOnPath", TRUE)>>,
                 path |-> IF joined THEN "complete" ELSE "pending"]

\* fly_waypoint_mission: moveOnPathAsync(...).join() inside try/except
fly_waypoint_mission(dc, o, p) ==
    LET m == move_on_path(dc, o, TRUE, p)
    IN [dc |-> dc, ret |-> ~m.raised, calls |-> m.calls, path |-> m.path]

get_drone_state(dc, ok) ==
    [dc |-> dc,
     ret |-> IF dc.client /\ ok THEN "state" ELSE "None",
     calls |-> Rpc(dc, "getMultirotorState", ok)]

get_position(dc, ok) ==
    [dc |-> dc,
     ret |-> IF dc.client /\ ok THEN "position" ELSE "None",
     calls |-> Rpc(dc, "getMultirotorState", ok)]

\* outcome of one capture: "frame", "rpcRaise" (simGetImage raises),
\* "empty" (None or zero-length response), "undecodable" (imdecode gives None)
CaptureOutcomes == {"frame", "rpcRaise", "empty", "undecodable"}

capture_image(dc, o) ==
    [dc |-> dc,
     ret |-> IF dc.client /\ o = "frame" THEN "img" ELSE "None",
     calls |-> Rpc(dc, "simGetImage", o # "rpcRaise")]

(***************************************************************************)
(* TrainedCrackDetector.                                                   *)
(* An inference outcome is what self.model(...) and the extraction of its  *)
(* result do on one call:                                                  *)
(*   [kind |-> "boxes", n |-> k, bad |-> b] : k boxes are found, and the   *)
(*                                 extraction of b of them raises inside   *)
(*                                 the per-box try (lines 92-106)          *)
(*   [kind |-> "raise"]          : an exception inside the outer try block *)
(*   [kind |-> "escape"]         : an exception the try block does not     *)
(*                                 absorb (raised by the fallback itself)  *)
(* detect returns the dictionary it builds, or raised = TRUE; cracks is    *)
(* the length of the list 'cracks'.                                        *)
(***************************************************************************)
InferenceOutcomes(maxBoxes) ==
    {o \in [kind : {"boxes"}, n : 0..maxBoxes, bad : 0..maxBoxes] : o.bad <= o.n}
    \cup {[kind |-> "raise", n |-> 0, bad |-> 0], [kind |-> "escape", n |-> 0, bad |-> 0]}

\* the zero-detection result of lines 68-73 and 116-121
ZeroResult(conf) ==
    [raised |-> FALSE, anomaly_count |-> 0, image_annotated |-> "copy",
     cracks |-> 0, confidence |-> conf]

detect(hasModel, conf, inf) ==
    IF ~hasModel THEN ZeroResult(conf)
    ELSE CASE inf.kind = "boxes" ->
                [raised |-> FALSE, anomaly_count |-> inf.n, image_annotated |-> "plot",
                 cracks |-> inf.n - inf.bad, confidence |-> conf]
           [] inf.kind = "raise" -> ZeroResult(conf)
           [] OTHER -> [ZeroResult(conf) EXCEPT !.raised = TRUE]

(***************************************************************************)
(* State.                                                                  *)
(***************************************************************************)
VARIABLES
    variant,        \* "live" or "replay": which program this run executes ("unit":
                    \* the components on their own)
    pc,             \* position of the program
    drone,          \* the DroneController of live_detection
    log,            \* commands issued so far, in order (bootstrap and cleanup)
    frame_count,    \* frame_count
    total,          \* total_crack (live) / total_anomalies (replay)
    confidence,     \* confidence_th (live) / confidence (replay), in hundredths
    fullscreen,     \* fullscreen
    paused,         \* paused (replay)
    anomaly_count,  \* anomaly_count of the last processed frame
    annotated,      \* img_annotated / frame_annotated of the last processed frame
    stream,         \* replay: frames left unread in the video
    quitRequested,  \* the operator has pressed q and no poll has seen it yet
    exitCause,      \* why the loop (or the program) ended
    failedStep,     \* the bootstrap step that failed, "none" if none
    history,        \* per processed frame: what the detector call did
    lastCapture,    \* outcome of the most recent frame acquisition
    missParity,     \* parity of the current run of consecutive capture misses
    path,           \* the path-following command: "none", "pending", "complete"
    saves,          \* file names written by the save command, in order
    last,           \* the most recent call on a component and what it returned
    shown           \* replay: the playback indicator on the frame last presented,
                    \* and the value of paused when it was presented

vars == <<variant, pc, drone, log, frame_count, total, confidence, fullscreen, paused,
          anomaly_count, annotated, stream, quitRequested, exitCause, failedStep,
          history, lastCapture, missParity, path, saves, last, shown>>

loopVars == <<frame_count, total, confidence, fullscreen, paused, anomaly_count, annotated>>
ghostVars == <<quitRequested, history, lastCapture, missParity>>
auxVars == <<path, saves, last, shown>>

\* nothing presented yet
NothingShown == [indicator |-> "none", paused |-> FALSE]

\* no call on a component yet
NoCallYet == [op |-> "none", args |-> <<>>, ret |-> "None", calls |-> <<>>,
              before |-> NewController, seq |-> 0]

(***************************************************************************)
(* Environments: the outcomes the surroundings may produce.  Env is every  *)
(* fault, with an operator who saves no frame; CalmEnv is fault-free runs  *)
(* with silent detections, long enough for long sequences of commands,     *)
(* over more confidence arguments; MissionEnv is a bootstrap without       *)
(* faults followed by a loop in which the operator also saves frames.      *)
(***************************************************************************)
Keys == {"none", "q", "s", "f", "F", "+", "=", "-", "_", " "}

\* sys.argv[2:3] of the replay command line: no confidence argument, or
\* one, in hundredths
ConfidenceArgs == {<<>>, <<-5>>, <<100>>, <<105>>}
MoreConfidenceArgs == ConfidenceArgs \cup {<<0>>, <<3>>, <<42>>, <<97>>, <<101>>, <<-1>>}

Env ==
    [connect |-> ConnectOutcomes, rpc |-> BOOLEAN, ctor |-> BOOLEAN,
     takeoff |-> TakeoffOutcomes, capture |-> CaptureOutcomes,
     inference |-> InferenceOutcomes(MaxBoxes), bodyFault |-> BOOLEAN,
     keys |-> Keys, maxFrames |-> MaxFrames, args |-> ConfidenceArgs,
     pathGiven |-> BOOLEAN, maxSaves |-> 0]

CalmEnv ==
    [connect |-> {"ok"}, rpc |-> {TRUE}, ctor |-> {TRUE},
     takeoff |-> {"ok"}, capture |-> {"frame"},
     inference |-> {[kind |-> "boxes", n |-> 0, bad |-> 0]}, bodyFault |-> {FALSE},
     keys |-> Keys, maxFrames |-> MaxConfFrames,
     args |-> MoreConfidenceArgs, pathGiven |-> {TRUE}, maxSaves |-> 0]

MissionEnv ==
    [connect |-> {"ok"}, rpc |-> {TRUE}, ctor |-> {TRUE},
     takeoff |-> {"ok"}, capture |-> {"frame", "empty"},
     inference |-> {[kind |-> "boxes", n |-> 0, bad |-> 0], [kind |-> "boxes", n |-> 1, bad |-> 0]},
     bodyFault |-> BOOLEAN,
     keys |-> Keys, maxFrames |-> MaxFrames, args |-> {<<>>},
     pathGiven |-> {TRUE}, maxSaves |-> MaxSaves]

Init ==
    /\ variant \in {"live", "replay"}
    /\ pc = IF variant = "live" THEN "connect" ELSE "main"
    /\ drone = NewController
    /\ log = <<>>
    /\ frame_count = 0
    /\ total = 0
    /\ confidence = IF variant = "live" THEN LiveInitialConfidence ELSE ReplayDefaultConfidence
    /\ fullscreen = FALSE
    /\ paused = FALSE
    /\ anomaly_count = 0
    /\ annotated = "None"
    /\ stream = 0
    /\ quitRequested = FALSE
    /\ exitCause = "none"
    /\ failedStep = "none"
    /\ history = <<>>
    /\ lastCapture = "none"
    /\ missParity = 0
    /\ path = "none"
    /\ saves = <<>>
    /\ last = NoCallYet
    /\ shown = NothingShown

(***************************************************************************)
(* live_detection: bootstrap (lines 21-92).                                *)
(***************************************************************************)
\* a failure branch that lacks its return
BootstrapStepNoReturn(step, r, ok, next, after) ==
    /\ drone' = IF ok THEN r.dc ELSE after.dc
    /\ log' = IF ok THEN log \o r.calls ELSE log \o r.calls \o after.calls
    /\ pc' = next
    /\ failedStep' = IF ok THEN failedStep ELSE step
    /\ exitCause' = IF ok THEN exitCause ELSE "bootstrap"
    /\ UNCHANGED <<variant, loopVars, stream, ghostVars, auxVars>>

\* a bootstrap step that issues `r.calls`, succeeds iff `ok`, and on
\* failure runs `after` (the calls of the failure branch) and returns
BootstrapStep(step, r, ok, next, after) ==
    /\ drone' = IF ok THEN r.dc ELSE after.dc
    /\ log' = IF ok THEN log \o r.calls ELSE log \o r.calls \o after.calls
    /\ pc' = IF ok THEN next ELSE "done"
    /\ failedStep' = IF ok THEN failedStep ELSE step
    /\ exitCause' = IF ok THEN exitCause ELSE "bootstrap"
    /\ UNCHANGED <<variant, loopVars, stream, ghostVars, auxVars>>

\* the connect step has no disconnect on its failure branch
NoCall(dc) == [dc |-> dc, ret |-> "None", calls |-> <<>>]

LiveConnect(e) ==
    /\ variant = "live" /\ pc = "connect"
    /\ \E o \in e.connect :
         LET r == connect(drone, o)
         IN BootstrapStep("connect", r, r.ret, "enable_api_control", NoCall(r.dc))

LiveEnableApiControl(e) ==
    /\ variant = "live" /\ pc = "enable_api_control"
    /\ \E ok \in e.rpc :
         LET r == enable_api_control(drone, ok)
         IN BootstrapStep("enable_api_control", r, r.ret, "arm", disconnect(r.dc))

LiveArm(e) ==
    /\ variant = "live" /\ pc = "arm"
    /\ \E ok \in e.rpc :
         LET r == arm(drone, ok)
         IN BootstrapStep("arm", r, r.ret, "get_drone_state", disconnect(r.dc))

LiveGetDroneState(e) ==
    /\ variant = "live" /\ pc = "get_drone_state"
    /\ \E ok \in e.rpc :
         LET r == get_drone_state(drone, ok)
         IN BootstrapStep("get_drone_state", r, r.ret # "None", "detector", disconnect(r.dc))

\* TrainedCrackDetector(model_path='best.pt', device=None), lines 50-56
LiveDetectorInit(e) ==
    /\ variant = "live" /\ pc = "detector"
    /\ \E ok \in e.ctor :
         LET r == [dc |-> drone, ret |-> ok, calls |-> <<Call("TrainedCrackDetector", ok)>>]
         IN BootstrapStep("detector", r, ok, "takeoff", disconnect(drone))

LiveTakeoff(e) ==
    /\ variant = "live" /\ pc = "takeoff"
    /\ \E o \in e.takeoff :
         LET r == takeoff(drone, o, "position")
         IN BootstrapStep("takeoff", r, r.ret, "path", disconnect(r.dc))

\* drone.client.moveOnPathAsync(...), lines 84-92: not joined, and outside
\* every try block, so an exception of it ends the function at once
\* the path command of a loop that waits for the mission before it starts
LivePathCallJoined(dc, ok, p) ==
    move_on_path(dc, IF ok THEN "ok" ELSE "issueRaise", TRUE, p)

\* the call itself: no .join()
LivePathCall(dc, ok, p) ==
    move_on_path(dc, IF ok THEN "ok" ELSE "issueRaise", FALSE, p)

LiveStartPath(e) ==
    /\ variant = "live" /\ pc = "path"
    /\ \E ok \in e.rpc :
         LET m == LivePathCall(drone, ok, path)
         IN /\ log' = log \o m.calls
            /\ path' = m.path
            /\ pc' = IF ~m.raised THEN "loop" ELSE "done"
            /\ failedStep' = IF ~m.raised THEN failedStep ELSE "path"
            /\ exitCause' = IF ~m.raised THEN exitCause ELSE "raised"
            /\ UNCHANGED <<variant, drone, loopVars, stream, ghostVars, saves, last, shown>>


(***************************************************************************)
(* live_detection: the loop (lines 94-184).                                *)
(***************************************************************************)
\* an increase that forgets the clamp
IncreaseConfidenceUnclamped(c) == c + ConfidenceStep

\* a decrease by twice the step
DecreaseConfidenceTwice(c) == Max(ConfidenceMin, c - 2 * ConfidenceStep)

\* lines 180 and 183
IncreaseConfidence(c) == Min(ConfidenceMax, c + ConfidenceStep)
DecreaseConfidence(c) == Max(ConfidenceMin, c - ConfidenceStep)

\* an except branch that forgets the fallback image
LiveDetectionNoFallback(conf, inf) ==
    LET r == detect(TRUE, conf, inf)
    IN IF r.raised
       THEN [failed |-> TRUE, anomaly_count |-> 0, annotated |-> "None", added |-> 0]
       ELSE [failed |-> FALSE, anomaly_count |-> r.anomaly_count,
             annotated |-> r.image_annotated, added |-> r.anomaly_count]

\* the try block around the detector call, lines 105-117: what the
\* iteration keeps of the call (added: what goes into total_crack)
LiveDetection(conf, inf) ==
    LET r == detect(TRUE, conf, inf)
    IN IF r.raised
       THEN [failed |-> TRUE, anomaly_count |-> 0, annotated |-> "copy", added |-> 0]
       ELSE [failed |-> FALSE, anomaly_count |-> r.anomaly_count,
             annotated |-> r.image_annotated, added |-> r.anomaly_count]

\* frame_count += 1, line 102
LiveCountFrame(n) == n + 1

\* an assignment in place of the accumulation
LiveAccumulateOverwrites(sum, added) == added

\* total_crack += anomaly_count, line 109
LiveAccumulate(sum, added) == sum + added

\* what the detector call of this iteration did: raised, or the count it
\* reported
DetectorAnswer(conf, inf) ==
    LET r == detect(TRUE, conf, inf)
    IN [raised |-> r.raised, count |-> IF r.raised THEN 0 ELSE r.anomaly_count]

\* a dispatch whose save branch falls through into the fullscreen toggle
LiveDispatchSaveFallsThrough(key, st) ==
    CASE key = "q" -> [st EXCEPT !.quit = TRUE]
      [] key \in {"s", "f"} -> [st EXCEPT !.fullscreen = ~st.fullscreen]
      [] key \in {"+", "="} -> [st EXCEPT !.confidence = IncreaseConfidence(st.confidence)]
      [] key \in {"-", "_"} -> [st EXCEPT !.confidence = DecreaseConfidence(st.confidence)]
      [] OTHER -> st

\* the key dispatch, lines 167-184: the loop state after key `key`
LiveDispatch(key, st) ==
    CASE key = "q" -> [st EXCEPT !.quit = TRUE]
      [] key = "s" -> st
      [] key = "f" -> [st EXCEPT !.fullscreen = ~st.fullscreen]
      [] key \in {"+", "="} -> [st EXCEPT !.confidence = IncreaseConfidence(st.confidence)]
      [] key \in {"-", "_"} -> [st EXCEPT !.confidence = DecreaseConfidence(st.confidence)]
      [] OTHER -> st

RECURSIVE Digits(_)
\* the decimal digits of n >= 0
Digits(n) == IF n < 10 THEN <<n>> ELSE Digits(n \div 10) \o <<n % 10>>

RECURSIVE ZeroPad(_, _)
\* digits d padded with zeros on the left to width w
ZeroPad(d, w) == IF Len(d) >= w THEN d ELSE ZeroPad(<<0>> \o d, w)

\* f"{frame_count:04d}"
Format04d(n) == ZeroPad(Digits(n), 4)

\* the save command, lines 172-175: the files written so far after key
\* `key` is dispatched with frame_count = n
LiveSave(key, n, written) ==
    IF key = "s"
    THEN Append(written, [prefix |-> "detection_frame_", digits |-> Format04d(n)])
    ELSE written

\* a poll that loses a pending q
PolledDropsPending(k) == k

\* the key a poll returns: a pending q, else what the operator presses now
Polled(k) == IF quitRequested THEN "q" ELSE k

\* a miss that is counted as a frame
LiveMissCounted(cap) ==
    /\ lastCapture' = "miss"
    /\ missParity' = 1 - missParity
    /\ frame_count' = frame_count + 1
    /\ UNCHANGED <<variant, pc, drone, log, total, confidence, fullscreen, paused,
                   anomaly_count, annotated, stream, quitRequested, exitCause,
                   failedStep, history, auxVars>>

\* an iteration whose capture gives no frame: `continue`, lines 97-100
LiveMiss(cap) ==
    /\ lastCapture' = "miss"
    /\ missParity' = 1 - missParity
    /\ UNCHANGED <<variant, pc, drone, log, loopVars, stream, quitRequested, exitCause,
                   failedStep, history, auxVars>>

\* an iteration that acquires a frame, lines 102-184
LiveFrame(inf, fault, k) ==
    LET d == LiveDetection(confidence, inf)
        st == LiveDispatch(Polled(k),
                  [quit |-> FALSE, fullscreen |-> fullscreen, confidence |-> confidence])
    IN /\ frame_count' = LiveCountFrame(frame_count)
       /\ total' = LiveAccumulate(total, d.added)
       /\ anomaly_count' = d.anomaly_count
       /\ annotated' = d.annotated
       /\ history' = Append(history, DetectorAnswer(confidence, inf))
       /\ lastCapture' = "frame"
       /\ missParity' = 0
       /\ IF fault
          THEN /\ pc' = "finally"
               /\ exitCause' = "exception"
               /\ UNCHANGED <<confidence, fullscreen, quitRequested, saves>>
          ELSE /\ pc' = IF st.quit THEN "finally" ELSE "loop"
               /\ exitCause' = IF st.quit THEN "quit" ELSE exitCause
               /\ confidence' = st.confidence
               /\ fullscreen' = st.fullscreen
               /\ quitRequested' = IF st.quit THEN FALSE ELSE quitRequested
               /\ saves' = LiveSave(Polled(k), LiveCountFrame(frame_count), saves)
       /\ UNCHANGED <<variant, drone, log, paused, stream, failedStep, path, last, shown>>

LiveTick(e) ==
    /\ variant = "live" /\ pc = "loop"
    /\ \E cap \in e.capture :
         IF capture_image(drone, cap).ret = "None"
         THEN LiveMiss(cap)
         ELSE /\ frame_count < e.maxFrames
              /\ \E inf \in e.inference, fault \in e.bodyFault, k \in e.keys :
                   /\ k = "s" => Len(saves) < e.maxSaves
                   /\ LiveFrame(inf, fault, k)

\* KeyboardInterrupt, lines 186-187
LiveInterrupt ==
    /\ variant = "live" /\ pc = "loop"
    /\ pc' = "finally"
    /\ exitCause' = "interrupt"
    /\ UNCHANGED <<variant, drone, log, loopVars, stream, ghostVars, failedStep, auxVars>>

(***************************************************************************)
(* live_detection: the finally block (lines 192-195).                      *)
(***************************************************************************)
\* a finally block that disconnects before it lands
LiveFinallyDisconnectFirst == <<"destroyAllWindows", "disconnect", "land">>

\* the statements of the finally block, in order
LiveFinallyOrder == <<"destroyAllWindows", "land", "disconnect">>

\* the calls statement `stmt` of the finally block issues
LiveFinallyStmt(stmt, dc, landOk, disarmOk) ==
    CASE stmt = "destroyAllWindows" ->
           [dc |-> dc, ret |-> "None", calls |-> <<Call("destroyAllWindows", TRUE)>>]
      [] stmt = "land" -> land(dc, landOk, disarmOk)
      [] OTHER -> disconnect(dc)

LiveFinally(e) ==
    /\ variant = "live" /\ pc = "finally"
    /\ \E landOk \in e.rpc, disarmOk \in e.rpc :
         LET r1 == LiveFinallyStmt(LiveFinallyOrder[1], drone, landOk, disarmOk)
             r2 == LiveFinallyStmt(LiveFinallyOrder[2], r1.dc, landOk, disarmOk)
             r3 == LiveFinallyStmt(LiveFinallyOrder[3], r2.dc, landOk, disarmOk)
         IN /\ drone' = r3.dc
            /\ log' = log \o r1.calls \o r2.calls \o r3.calls
    /\ pc' = "done"
    /\ UNCHANGED <<variant, loopVars, stream, ghostVars, exitCause, failedStep, auxVars>>

(***************************************************************************)
(* The operator and the vehicle.                                           *)
(***************************************************************************)
\* q pressed while the window is up; it stays pending until a poll
OperatorQuit ==
    /\ variant = "live" /\ pc = "loop" /\ frame_count > 0 /\ ~quitRequested
    /\ quitRequested' = TRUE
    /\ UNCHANGED <<variant, pc, drone, log, loopVars, stream, exitCause, failedStep,
                   history, lastCapture, missParity, auxVars>>

\* the vehicle reaches the end of the path it was told to follow, on its
\* own, while the program runs
VehicleCompletesPath ==
    /\ path = "pending" /\ pc # "done"
    /\ path' = "complete"
    /\ UNCHANGED <<variant, pc, drone, log, loopVars, stream, ghostVars, exitCause,
                   failedStep, saves, last, shown>>

(***************************************************************************)
(* main / video_detection_live: the replay variant.                        *)
(***************************************************************************)
\* a step of the start-up that logs `call`, goes on to `next` when `ok`
\* and returns otherwise
ReplayStep(step, call, ok, next) ==
    /\ log' = log \o call
    /\ pc' = IF ok THEN next ELSE "done"
    /\ failedStep' = IF ok THEN failedStep ELSE step
    /\ exitCause' = IF ok THEN exitCause ELSE "bootstrap"

\* a main that does not validate the confidence
ReplayMainUnvalidated(given, a) ==
    LET conf == IF a = <<>> THEN ReplayDefaultConfidence ELSE a[1]
    IN /\ ReplayStep(IF given THEN "confidence" ELSE "usage", <<>>, given, "exists")
       /\ confidence' = IF given THEN conf ELSE confidence

\* main, lines 225-244, on a command line with (given) or without a video
\* path and with the confidence argument a
ReplayMainArgs(given, a) ==
    LET conf == IF a = <<>> THEN ReplayDefaultConfidence ELSE a[1]
        ok == given /\ ConfidenceMin <= conf /\ conf <= ConfidenceMax
    IN /\ ReplayStep(IF given THEN "confidence" ELSE "usage", <<>>, ok, "exists")
       /\ confidence' = IF ok THEN conf ELSE confidence

ReplayMain(e) ==
    /\ variant = "replay" /\ pc = "main"
    /\ \E given \in e.pathGiven, a \in e.args : ReplayMainArgs(given, a)
    /\ UNCHANGED <<variant, drone, frame_count, total, fullscreen, paused, anomaly_count,
                   annotated, stream, ghostVars, auxVars>>

\* Path(video_path).exists(), lines 22-24
ReplayCheckPath(e) ==
    /\ variant = "replay" /\ pc = "exists"
    /\ \E ok \in e.rpc : ReplayStep("exists", <<Call("exists", ok)>>, ok, "detector")
    /\ UNCHANGED <<variant, drone, loopVars, stream, ghostVars, auxVars>>

\* TrainedCrackDetector(model_path='best.pt', device='cuda'), lines 29-37
ReplayDetectorInit(e) ==
    /\ variant = "replay" /\ pc = "detector"
    /\ \E ok \in e.ctor :
         ReplayStep("detector", <<Call("TrainedCrackDetector", ok)>>, ok, "open")
    /\ UNCHANGED <<variant, drone, loopVars, stream, ghostVars, auxVars>>

\* cv2.VideoCapture(video_path), lines 39-43: a video of n frames
ReplayOpen(e) ==
    /\ variant = "replay" /\ pc = "open"
    /\ \E ok \in e.rpc, n \in 0..MaxStream :
         /\ ReplayStep("open", <<Call("VideoCapture", ok)>>, ok, "loop")
         /\ stream' = IF ok THEN n ELSE stream
    /\ UNCHANGED <<variant, drone, loopVars, ghostVars, auxVars>>

\* lines 190 and 194
ReplayIncreaseConfidence(c) == Min(ConfidenceMax, c + ConfidenceStep)
ReplayDecreaseConfidence(c) == Max(ConfidenceMin, c - ConfidenceStep)

\* the try block around the detector call, lines 82-96
ReplayDetection(conf, inf) ==
    LET r == detect(TRUE, conf, inf)
    IN IF r.raised
       THEN [failed |-> TRUE, anomaly_count |-> 0, annotated |-> "copy", added |-> 0]
       ELSE [failed |-> FALSE, anomaly_count |-> r.anomaly_count,
             annotated |-> r.image_annotated, added |-> r.anomaly_count]

\* frame_count += 1, line 79
ReplayCountFrame(n) == n + 1

\* total_anomalies += anomaly_count, line 87
ReplayAccumulate(sum, added) == sum + added

\* the key dispatch, lines 173-199
ReplayDispatch(key, st) ==
    CASE key = "q" -> [st EXCEPT !.quit = TRUE]
      [] key = " " -> [st EXCEPT !.paused = ~st.paused]
      [] key = "s" -> st
      [] key \in {"+", "="} ->
           [st EXCEPT !.confidence = ReplayIncreaseConfidence(st.confidence)]
      [] key \in {"-", "_"} ->
           [st EXCEPT !.confidence = ReplayDecreaseConfidence(st.confidence)]
      [] key \in {"f", "F"} -> [st EXCEPT !.fullscreen = ~st.fullscreen]
      [] OTHER -> st

\* the save command, lines 184-187: the files written so far after key
\* `key` is dispatched with frame_count = n
ReplaySave(key, n, written) ==
    IF key = "s"
    THEN Append(written, [prefix |-> "detection_live_", digits |-> Format04d(n)])
    ELSE written

\* the poll and dispatch that end an iteration whose frame_count is n, or
\* the exception that ends the loop instead
ReplayPoll(fault, k, n) ==
    LET st == ReplayDispatch(Polled(k),
                  [quit |-> FALSE, paused |-> paused, fullscreen |-> fullscreen,
                   confidence |-> confidence])
    IN IF fault
       THEN /\ pc' = "finally"
            /\ exitCause' = "exception"
            /\ UNCHANGED <<confidence, fullscreen, paused, quitRequested, saves>>
       ELSE /\ pc' = IF st.quit THEN "finally" ELSE "loop"
            /\ exitCause' = IF st.quit THEN "quit" ELSE exitCause
            /\ confidence' = st.confidence
            /\ fullscreen' = st.fullscreen
            /\ paused' = st.paused
            /\ quitRequested' = IF st.quit THEN FALSE ELSE quitRequested
            /\ saves' = ReplaySave(Polled(k), n, saves)

\* an end of the video that is retried instead of ending the loop
ReplayEndOfStreamRetried ==
    /\ lastCapture' = "eof"
    /\ UNCHANGED <<pc, exitCause, loopVars, stream, quitRequested, history, missParity, saves,
                   shown>>

\* cap.read() at the end of the video: break, lines 73-77
ReplayEndOfStream ==
    /\ pc' = "finally"
    /\ exitCause' = "eof"
    /\ lastCapture' = "eof"
    /\ UNCHANGED <<loopVars, stream, quitRequested, history, missParity, saves, shown>>

\* status_pause, line 123: the playback indicator drawn on an overlay
\* rendered while paused = p
ReplayIndicator(p) == IF p THEN "PAUSED" ELSE "PLAYING"

\* an iteration that reads a frame, lines 73-199: the overlay is rendered
\* and presented before the poll (when the rendering raises, nothing new is
\* presented)
ReplayFrame(inf, fault, k) ==
    LET d == ReplayDetection(confidence, inf)
    IN /\ stream' = stream - 1
       /\ frame_count' = ReplayCountFrame(frame_count)
       /\ total' = ReplayAccumulate(total, d.added)
       /\ anomaly_count' = d.anomaly_count
       /\ annotated' = d.annotated
       /\ history' = Append(history, DetectorAnswer(confidence, inf))
       /\ lastCapture' = "frame"
       /\ shown' = IF fault THEN shown
                   ELSE [indicator |-> ReplayIndicator(paused), paused |-> paused]
       /\ ReplayPoll(fault, k, ReplayCountFrame(frame_count))
       /\ UNCHANGED missParity

\* a paused iteration that still counts a frame
ReplayPausedCounts(fault, k) ==
    /\ ReplayPoll(fault, k, frame_count + 1)
    /\ frame_count' = frame_count + 1
    /\ shown' = IF fault THEN shown ELSE [shown EXCEPT !.paused = paused]
    /\ UNCHANGED <<stream, total, anomaly_count, annotated, history, lastCapture, missParity>>

\* an iteration while paused, lines 167-199: the overlay of the last frame
\* read is presented again, as it was rendered
ReplayPaused(fault, k) ==
    /\ ReplayPoll(fault, k, frame_count)
    /\ shown' = IF fault THEN shown ELSE [shown EXCEPT !.paused = paused]
    /\ UNCHANGED <<stream, frame_count, total, anomaly_count, annotated, history,
                   lastCapture, missParity>>

ReplayTick(e) ==
    /\ variant = "replay" /\ pc = "loop"
    /\ IF paused
       THEN \E fault \in e.bodyFault, k \in e.keys :
                /\ k = "s" => Len(saves) < e.maxSaves
                /\ ReplayPaused(fault, k)
       ELSE IF stream = 0
            THEN ReplayEndOfStream
            ELSE \E inf \in e.inference, fault \in e.bodyFault, k \in e.keys :
                    /\ k = "s" => Len(saves) < e.maxSaves
                    /\ ReplayFrame(inf, fault, k)
    /\ UNCHANGED <<variant, drone, log, failedStep, path, last>>

\* KeyboardInterrupt, lines 201-202
ReplayInterrupt ==
    /\ variant = "replay" /\ pc = "loop"
    /\ pc' = "finally"
    /\ exitCause' = "interrupt"
    /\ UNCHANGED <<variant, drone, log, loopVars, stream, ghostVars, failedStep, auxVars>>

\* the finally block, lines 209-223
ReplayFinally ==
    /\ variant = "replay" /\ pc = "finally"
    /\ log' = log \o <<Call("release", TRUE), Call("destroyAllWindows", TRUE),
                       Call("summary", TRUE)>>
    /\ pc' = "done"
    /\ UNCHANGED <<variant, drone, loopVars, stream, ghostVars, exitCause, failedStep, auxVars>>

(***************************************************************************)
(* The components on their own: a caller that holds one DroneController    *)
(* and one TrainedCrackDetector and calls their methods in any order, with *)
(* every outcome of the remote calls.  last records the most recent call:  *)
(* the method, its inputs, what it returned, the commands it issued, the   *)
(* controller before it, and a bit that flips on every call.               *)
(***************************************************************************)
\* positions getMultirotorState may report
Positions == {"position", "elsewhere"}

\* thresholds passed to detect
UnitConfidences ==
    {ConfidenceMin, ReplayDefaultConfidence, LiveInitialConfidence, ConfidenceMax}

UnitInit ==
    /\ variant = "unit"
    /\ pc = "idle"
    /\ drone = NewController
    /\ log = <<>>
    /\ frame_count = 0
    /\ total = 0
    /\ confidence = ReplayDefaultConfidence
    /\ fullscreen = FALSE
    /\ paused = FALSE
    /\ anomaly_count = 0
    /\ annotated = "None"
    /\ stream = 0
    /\ quitRequested = FALSE
    /\ exitCause = "none"
    /\ failedStep = "none"
    /\ history = <<>>
    /\ lastCapture = "none"
    /\ missParity = 0
    /\ path = "none"
    /\ saves = <<>>
    /\ last = NoCallYet
    /\ shown = NothingShown

\* the caller calls method `op` with inputs `args`: r is what the method
\* does, p the state of the path command when it returns
UnitCall(op, args, r, p) ==
    /\ variant = "unit"
    /\ drone' = r.dc
    /\ path' = p
    /\ last' = [op |-> op, args |-> args, ret |-> r.ret, calls |-> r.calls,
                before |-> drone, seq |-> 1 - last.seq]
    /\ UNCHANGED <<variant, pc, log, loopVars, stream, ghostVars, exitCause, failedStep, saves,
                   shown>>

UnitConnect ==
    \E o \in ConnectOutcomes : UnitCall("connect", [o |-> o], connect(drone, o), path)

UnitDisconnect == UnitCall("disconnect", <<>>, disconnect(drone), path)

UnitEnableApiControl ==
    \E ok \in BOOLEAN :
        UnitCall("enable_api_control", [ok |-> ok], enable_api_control(drone, ok), path)

UnitArm == \E ok \in BOOLEAN : UnitCall("arm", [ok |-> ok], arm(drone, ok), path)

UnitDisarm == \E ok \in BOOLEAN : UnitCall("disarm", [ok |-> ok], disarm(drone, ok), path)

UnitTakeoff ==
    \E o \in TakeoffOutcomes, pos \in Positions :
        UnitCall("takeoff", [o |-> o, pos |-> pos], takeoff(drone, o, pos), path)

UnitLand ==
    \E landOk \in BOOLEAN, disarmOk \in BOOLEAN :
        UnitCall("land", [landOk |-> landOk, disarmOk |-> disarmOk],
                 land(drone, landOk, disarmOk), path)

UnitFlyWaypointMission ==
    \E o \in PathOutcomes :
        LET r == fly_waypoint_mission(drone, o, path)
        IN UnitCall("fly_waypoint_mission", [o |-> o], r, r.path)

UnitFlyToPosition ==
    \E ok \in BOOLEAN : UnitCall("fly_to_position", [ok |-> ok], fly_to_position(drone, ok), path)

UnitReturnToLaunch ==
    \E ok \in BOOLEAN :
        UnitCall("return_to_launch", [ok |-> ok], return_to_launch(drone, ok), path)

UnitGetDroneState ==
    \E ok \in BOOLEAN :
        UnitCall("get_drone_state", [ok |-> ok], get_drone_state(drone, ok), path)

UnitGetPosition ==
    \E ok \in BOOLEAN : UnitCall("get_position", [ok |-> ok], get_position(drone, ok), path)

UnitCaptureImage ==
    \E o \in CaptureOutcomes :
        UnitCall("capture_image", [o |-> o], capture_image(drone, o), path)

UnitDetect ==
    \E hasModel \in BOOLEAN, conf \in UnitConfidences, inf \in InferenceOutcomes(MaxBoxes) :
        UnitCall("detect", [hasModel |-> hasModel, conf |-> conf, inf |-> inf],
                 [dc |-> drone, ret |-> detect(hasModel, conf, inf), calls |-> <<>>], path)

UnitNext ==
    \/ UnitConnect
    \/ UnitDisconnect
    \/ UnitEnableApiControl
    \/ UnitArm
    \/ UnitDisarm
    \/ UnitTakeoff
    \/ UnitLand
    \/ UnitFlyWaypointMission
    \/ UnitFlyToPosition
    \/ UnitReturnToLaunch
    \/ UnitGetDroneState
    \/ UnitGetPosition
    \/ UnitCaptureImage
    \/ UnitDetect
    \/ VehicleCompletesPath

UnitSpec == UnitInit /\ [][UnitNext]_vars

(***************************************************************************)
(* Specifications.                                                         *)
(***************************************************************************)
Program(e) ==
    \/ LiveConnect(e)
    \/ LiveEnableApiControl(e)
    \/ LiveArm(e)
    \/ LiveGetDroneState(e)
    \/ LiveDetectorInit(e)
    \/ LiveTakeoff(e)
    \/ LiveStartPath(e)
    \/ LiveTick(e)
    \/ LiveFinally(e)
    \/ ReplayMain(e)
    \/ ReplayCheckPath(e)
    \/ ReplayDetectorInit(e)
    \/ ReplayOpen(e)
    \/ ReplayTick(e)
    \/ ReplayFinally

Next == Program(Env) \/ OperatorQuit \/ LiveInterrupt \/ ReplayInterrupt

Spec == Init /\ [][Next]_vars

\* the program keeps running: each of its steps is eventually taken; the
\* operator and the frame source are not constrained
FairSpec == Spec /\ WF_vars(Program(Env))

\* fault-free runs long enough for long sequences of confidence commands
ConfNext == Program(CalmEnv) \/ OperatorQuit

ConfSpec == Init /\ [][ConfNext]_vars

\* missions whose bootstrap succeeds: the vehicle follows the path while the
\* loop runs, and the operator saves frames
MissionNext ==
    Program(MissionEnv) \/ VehicleCompletesPath \/ OperatorQuit \/ LiveInterrupt
        \/ ReplayInterrupt

MissionSpec == Init /\ [][MissionNext]_vars

(***************************************************************************)
(* Reading the log.                                                        *)
(***************************************************************************)
\* the command names of a sequence of calls
Cmds(calls) == [i \in 1..Len(calls) |-> calls[i].cmd]

Issued(cmd) == \E i \in 1..Len(log) : log[i].cmd = cmd
Succeeded(cmd) == \E i \in 1..Len(log) : log[i] = Call(cmd, TRUE)

RECURSIVE Without(_, _)
\* sequence `seq` without its entries equal to `x`
Without(seq, x) ==
    IF seq = <<>> THEN <<>>
    ELSE IF Head(seq) = x THEN Without(Tail(seq), x)
         ELSE <<Head(seq)>> \o Without(Tail(seq), x)

\* position of the path-following command in the log, 0 if it was not issued
PathIndex ==
    IF Issued("moveOnPath") THEN CHOOSE i \in 1..Len(log) : log[i].cmd = "moveOnPath" ELSE 0

\* the commands issued after the loop was entered
AfterLoopCmds == Cmds(SubSeq(log, PathIndex + 1, Len(log)))

\* the ways the live loop is left
LoopExits == {"quit", "exception", "interrupt"}

(***************************************************************************)
(* C1.  Live variant: once the quit command has been dispatched, no        *)
(* further frame is captured, and the commands that follow are exactly     *)
(* display teardown, land, disarm, disconnect, in this order.              *)
(* Stated as the claim has it; the code does not satisfy it (a landing     *)
(* command that raises skips disarm).                                      *)
(***************************************************************************)
C1_AfterQuit ==
    (variant = "live" /\ exitCause = "quit") =>
        /\ pc \in {"finally", "done"}
        /\ pc = "finally" => AfterLoopCmds = <<>>
        /\ pc = "done" =>
             AfterLoopCmds = <<"destroyAllWindows", "land", "disarm", "disconnect">>

C1_QuitThenLandDisarmDisconnect ==
    /\ []C1_AfterQuit
    /\ [][(variant = "live" /\ exitCause = "quit") =>
            UNCHANGED <<frame_count, history, lastCapture, missParity>>]_vars

(***************************************************************************)
(* C2.  Live variant: however the loop is left (quit, exception in the     *)
(* body, keyboard interrupt), the program is in its cleanup or has run it, *)
(* and the cleanup issues display teardown, land and disconnect in this    *)
(* order and leaves the controller disconnected, also when the landing     *)
(* command raises.                                                         *)
(***************************************************************************)
C2_EveryExitCleansUp ==
    (variant = "live" /\ pc \notin {"connect", "enable_api_control", "arm",
                                     "get_drone_state", "detector", "takeoff", "path", "loop"}
       /\ failedStep = "none") =>
        /\ exitCause \in LoopExits
        /\ pc \in {"finally", "done"}
        /\ pc = "done" =>
             /\ Without(AfterLoopCmds, "disarm") = <<"destroyAllWindows", "land", "disconnect">>
             /\ ~drone.client /\ ~drone.is_connected

\* the loop was left by an exception, the landing command raised, and the
\* cleanup has completed
C2_Witness ==
    /\ variant = "live" /\ pc = "done" /\ exitCause = "exception"
    /\ \E i \in 1..Len(log) : log[i] = Call("land", FALSE)
    /\ Issued("disconnect")

(***************************************************************************)
(* C3.  Live variant: when the function has ended, disarm was attempted if *)
(* arming had succeeded, land was attempted if takeoff had been commanded, *)
(* and disconnect was executed if connect had succeeded.                   *)
(* Stated as the claim has it; the code does not satisfy it.               *)
(***************************************************************************)
C3_SafeStateOnEveryExit ==
    (variant = "live" /\ pc = "done") =>
        /\ Succeeded("arm") => Issued("disarm")
        /\ Issued("takeoff") => Issued("land")
        /\ Succeeded("confirmConnection") => Issued("disconnect")

(***************************************************************************)
(* C4.  In both variants the confidence threshold is inside [0,1] in every *)
(* reachable state, whatever sequence of increase and decrease commands is *)
(* dispatched.                                                             *)
(***************************************************************************)
C4_ConfidenceInRange ==
    ConfidenceMin <= confidence /\ confidence <= ConfidenceMax

\* the live threshold after more increases than fit under the clamp
C4_Witness ==
    /\ variant = "live" /\ pc = "loop"
    /\ frame_count > (ConfidenceMax - LiveInitialConfidence) \div ConfidenceStep
    /\ confidence = ConfidenceMax

(***************************************************************************)
(* C5.  Live variant: an increase (decrease) command changes the threshold *)
(* by exactly +0.05 (-0.05), unless that would leave [0,1], and then the   *)
(* threshold becomes exactly 1.0 (0.0); from 0.5, three decreases give     *)
(* 0.35 and twenty further increases give 1.0.                             *)
(***************************************************************************)
\* the live iteration that acquires a frame, raises nothing and polls key k
\* with no quit pending
LiveCommandStep(k) ==
    /\ variant = "live" /\ pc = "loop" /\ ~quitRequested
    /\ \E inf \in InferenceOutcomes(MaxBoxes) : LiveFrame(inf, FALSE, k)

RECURSIVE Burst(_, _, _)
\* the threshold after n dispatches of key k, from threshold c
Burst(n, k, c) ==
    IF n = 0 THEN c
    ELSE Burst(n - 1, k,
               LiveDispatch(k, [quit |-> FALSE, fullscreen |-> FALSE, confidence |-> c]).confidence)

C5_Scenario ==
    /\ Burst(3, "-", LiveInitialConfidence) = 35
    /\ Burst(20, "+", Burst(3, "-", LiveInitialConfidence)) = ConfidenceMax

C5_StepOrClamp ==
    /\ []C5_Scenario
    /\ [][/\ \A k \in {"+", "="} :
               LiveCommandStep(k) =>
                   confidence' = IF confidence + ConfidenceStep > ConfidenceMax
                                 THEN ConfidenceMax
                                 ELSE confidence + ConfidenceStep
          /\ \A k \in {"-", "_"} :
               LiveCommandStep(k) =>
                   confidence' = IF confidence - ConfidenceStep < ConfidenceMin
                                 THEN ConfidenceMin
                                 ELSE confidence - ConfidenceStep]_vars

\* the end of the scenario: 23 commands dispatched, the threshold at 1.0
C5_Witness ==
    /\ variant = "live" /\ pc = "loop"
    /\ frame_count = 23
    /\ confidence = ConfidenceMax

(***************************************************************************)
(* C6.  In both variants total equals the sum of the counts the detector   *)
(* reported on the iterations whose detector call returned; an iteration   *)
(* whose detector call raised contributes nothing.                         *)
(***************************************************************************)
RECURSIVE ReportedSum(_)
ReportedSum(h) ==
    IF h = <<>> THEN 0
    ELSE (IF Head(h).raised THEN 0 ELSE Head(h).count) + ReportedSum(Tail(h))

C6_TotalIsSumOfReports == total = ReportedSum(history)

\* two iterations: the detector call of the first raised, the second
\* reported MaxBoxes
C6_Witness ==
    /\ variant = "live" /\ pc = "loop"
    /\ Len(history) = 2
    /\ history[1].raised
    /\ ~history[2].raised /\ history[2].count = MaxBoxes
    /\ total = MaxBoxes

(***************************************************************************)
(* C7.  Live variant: frame_count grows by exactly 1 on every iteration    *)
(* that acquires a frame and on no other step; an iteration whose capture  *)
(* gives no frame leaves frame_count and total unchanged, does not call    *)
(* the detector and stays in the loop.                                     *)
(***************************************************************************)
\* the step is an iteration that acquired a frame (the detector was called)
FrameStep == Len(history') = Len(history) + 1
\* the step is an iteration whose capture gave no frame
MissStep == lastCapture' = "miss" /\ missParity' # missParity

C7_FrameCountPerFrame ==
    [][variant = "live" =>
          /\ frame_count' # frame_count => (FrameStep /\ frame_count' = frame_count + 1)
          /\ FrameStep => frame_count' = frame_count + 1
          /\ MissStep => /\ UNCHANGED <<frame_count, total, history>>
                         /\ pc = "loop" /\ pc' = "loop"]_vars

\* a frame, then two capture misses, still in the loop
C7_Witness ==
    /\ variant = "live" /\ pc = "loop"
    /\ frame_count = 1
    /\ lastCapture = "miss" /\ missParity = 0

(***************************************************************************)
(* C8.  Both variants: when the detector call of an iteration raises,      *)
(* frame_count is still incremented, total is unchanged, the annotated     *)
(* frame is the raw frame with a per-frame count of 0, and the loop goes   *)
(* on (it renders, polls and runs the next iteration) unless this          *)
(* iteration's poll dispatches quit or its rendering raises.               *)
(***************************************************************************)
Escape == [kind |-> "escape", n |-> 0, bad |-> 0]

\* the step is an iteration whose detector call raised
DetectorRaisedStep == FrameStep /\ history'[Len(history')].raised

C8_DetectorFaultIsPerTick ==
    [][/\ DetectorRaisedStep =>
            /\ frame_count' = frame_count + 1
            /\ total' = total
            /\ anomaly_count' = 0
            /\ annotated' = "copy"
            /\ pc' = "loop" \/ exitCause' \in {"quit", "exception"}
       /\ \A k \in Keys \ {"q"} :
            (/\ pc = "loop" /\ ~quitRequested
             /\ \/ variant = "live" /\ LiveFrame(Escape, FALSE, k)
                \/ variant = "replay" /\ ~paused /\ stream > 0 /\ ReplayFrame(Escape, FALSE, k))
            => pc' = "loop"]_vars

\* the detector call of the first iteration raised and a second iteration
\* has run
C8_Witness ==
    /\ pc = "loop"
    /\ Len(history) = 2
    /\ history[1].raised
    /\ frame_count = 2

(***************************************************************************)
(* C9.  Live variant: a quit command the operator has issued, pending      *)
(* until polled, eventually ends the run (loop left, cleanup done).        *)
(* C9_QuitEventuallyEndsTheRun is the claim as stated, for every behaviour *)
(* of the frame source.  C9_QuitSeenAtNextFrame is the amended claim: the  *)
(* input is polled only by an iteration that acquires a frame; such an     *)
(* iteration dispatches the pending quit (or its rendering raises: either  *)
(* way the loop is left), so the run ends provided the frame source does   *)
(* not miss forever.                                                       *)
(* Both are stated for a quit issued while the exploration still lets the  *)
(* frame source deliver a frame, so that no violation rests on MaxFrames.  *)
(***************************************************************************)
C9_QuitEventuallyEndsTheRun ==
    (variant = "live" /\ quitRequested /\ frame_count < MaxFrames) ~> (pc = "done")

C9_QuitSeenAtNextFrame ==
    /\ [][(variant = "live" /\ quitRequested) =>
            /\ FrameStep => (pc' = "finally" /\ exitCause' \in {"quit", "exception"})
            /\ MissStep => (quitRequested' /\ pc' = "loop")]_vars
    /\ ([]<>(lastCapture # "miss")) => C9_QuitEventuallyEndsTheRun

\* a quit pending across capture misses, which do not poll it
C9_Witness ==
    /\ variant = "live" /\ pc = "loop"
    /\ quitRequested /\ frame_count < MaxFrames
    /\ lastCapture = "miss" /\ missParity = 0

(***************************************************************************)
(* C10.  Live variant: when connect, enable_api_control, arm, the state    *)
(* read, the detector construction or takeoff fails, the function returns: *)
(* the failed step is not retried, no later bootstrap step runs, the path- *)
(* following command is not issued and no frame is captured.               *)
(***************************************************************************)
\* the commands of a bootstrap in which every step succeeds
FullBootstrap ==
    <<"confirmConnection", "enableApiControl", "arm", "getMultirotorState",
      "TrainedCrackDetector", "takeoff", "getMultirotorState", "moveOnPath">>

BootstrapSteps ==
    <<"connect", "enable_api_control", "arm", "get_drone_state", "detector", "takeoff">>

\* how many commands of FullBootstrap are issued before step i starts
\* and by the end of step i
StepFirst == <<0, 1, 2, 3, 4, 5>>
StepLast == <<1, 2, 3, 4, 5, 7>>

C10_BootstrapFailureIsTerminal ==
    \A i \in 1..Len(BootstrapSteps) :
        (variant = "live" /\ failedStep = BootstrapSteps[i]) =>
            LET issued == Without(Cmds(log), "disconnect")
            IN /\ pc = "done"
               /\ StepFirst[i] <= Len(issued) /\ Len(issued) <= StepLast[i]
               /\ issued = SubSeq(FullBootstrap, 1, Len(issued))
               /\ frame_count = 0 /\ history = <<>> /\ lastCapture = "none"

\* arming failed after connect and enable_api_control had succeeded
C10_Witness ==
    /\ variant = "live" /\ failedStep = "arm" /\ pc = "done"
    /\ log[Len(log)].cmd = "disconnect"

(***************************************************************************)
(* C11.  Live variant: whenever connect, enable_api_control, arm or        *)
(* takeoff fails, disconnect is called and the detector has not been       *)
(* constructed in that run.                                                *)
(* Stated as the claim has it; the code does not satisfy it (no disconnect *)
(* after a failed connect; the detector is constructed before takeoff).    *)
(***************************************************************************)
VehicleBootstrapSteps == {"connect", "enable_api_control", "arm", "takeoff"}

C11_VehicleFailureDisconnectsNoDetector ==
    (variant = "live" /\ failedStep \in VehicleBootstrapSteps) =>
        /\ Issued("disconnect")
        /\ ~Issued("TrainedCrackDetector")

(***************************************************************************)
(* C12.  Live variant: the path-following command is issued and not        *)
(* joined.  The step that issues it enters the loop with the path still    *)
(* pending; in the loop an iteration can run whatever the state of the     *)
(* path (pending or complete), it processes a frame whenever the frame     *)
(* source delivers one, no iteration changes the state of the path, and    *)
(* the vehicle can complete the path between any two iterations without    *)
(* moving the program.                                                     *)
(***************************************************************************)
\* the step is the vehicle completing the path
PathCompletes == path = "pending" /\ path' = "complete"

C12_TickEnabledInLoop ==
    (variant = "live" /\ pc = "loop") =>
        /\ path \in {"pending", "complete"}
        /\ ENABLED LiveTick(MissionEnv)
        /\ frame_count < MaxFrames =>
              ENABLED (LiveTick(MissionEnv) /\ frame_count' = frame_count + 1)
        /\ path = "pending" => ENABLED VehicleCompletesPath

C12_PathNotJoined ==
    /\ []C12_TickEnabledInLoop
    /\ [][variant = "live" =>
            /\ (pc = "path" /\ pc' = "loop") => path' = "pending"
            /\ (pc = "path" /\ Len(log') > Len(log) /\ log'[Len(log')] = Call("moveOnPath", TRUE))
                  => pc' = "loop"
            /\ (FrameStep \/ MissStep) => path' = path
            /\ PathCompletes => UNCHANGED <<pc, frame_count, history, lastCapture, missParity>>]_vars

\* two frames have been processed and the path is still being followed
C12_Witness ==
    /\ variant = "live" /\ pc = "loop"
    /\ frame_count = 2 /\ lastCapture = "frame"
    /\ path = "pending"

(***************************************************************************)
(* C13.  DroneController.fly_waypoint_mission is fire-and-forget: a call   *)
(* that starts the path returns to its caller while the path is still      *)
(* pending, without waiting for the vehicle to finish it.                  *)
(* Stated as the claim has it; the code does not satisfy it (it joins).    *)
(***************************************************************************)
\* the step is a call of method op
CallStep(op) == last'.seq # last.seq /\ last'.op = op

C13_WaypointMissionFireAndForget ==
    [][(CallStep("fly_waypoint_mission") /\ last'.ret = TRUE) =>
          (last'.calls = <<Call("moveOnPath", TRUE)>> /\ path' = "pending")]_vars

(***************************************************************************)
(* C14.  Replay variant: when the video is exhausted while not paused, the *)
(* loop ends without operator input (the iteration that finds the end of   *)
(* the video is enabled and leaves the loop, whatever key is pending), and *)
(* the cleanup is the one of an explicit quit: release the capture, tear   *)
(* down the display, report the summary.  With a finite video and an       *)
(* operator who does not leave the loop paused forever, the run ends.      *)
(***************************************************************************)
\* the commands of a replay run that reached its loop and ended
ReplayRunCmds ==
    <<"exists", "TrainedCrackDetector", "VideoCapture", "release", "destroyAllWindows",
      "summary">>

C14_AtEndOfStream ==
    (variant = "replay" /\ pc = "loop" /\ ~paused /\ stream = 0) =>
        ENABLED (ReplayTick(Env) /\ pc' = "finally" /\ exitCause' = "eof")

C14_SameCleanup ==
    (variant = "replay" /\ pc = "done" /\ failedStep = "none") =>
        /\ exitCause \in {"eof", "quit", "exception", "interrupt"}
        /\ Cmds(log) = ReplayRunCmds

C14_EndOfStreamEndsTheRun ==
    /\ []C14_AtEndOfStream
    /\ []C14_SameCleanup
    /\ [][(variant = "replay" /\ pc = "loop" /\ ~paused /\ stream = 0) =>
            /\ pc' = "finally" /\ exitCause' \in {"eof", "interrupt"}
            /\ UNCHANGED <<loopVars, stream, history, saves>>]_vars
    /\ ([]<>(~paused)) => ((variant = "replay" /\ pc = "loop") ~> (pc = "done"))

\* a run that processed the whole video and ended at its end
C14_Witness ==
    /\ variant = "replay" /\ pc = "done" /\ exitCause = "eof"
    /\ frame_count = MaxStream
    /\ Cmds(log) = ReplayRunCmds

(***************************************************************************)
(* C15.  Replay variant: while paused, an iteration reads no frame, does   *)
(* not call the detector and leaves frame_count and total unchanged; the   *)
(* input is still polled and dispatched (quit, save, confidence,           *)
(* fullscreen, pause).  A second pause command resumes with the next frame *)
(* of the video: every frame read is the one after the last frame read,    *)
(* and is read by an iteration that is not paused.                         *)
(***************************************************************************)
\* the paused iteration that raises nothing and polls key k, no quit pending
PausedCommandStep(k) ==
    /\ variant = "replay" /\ pc = "loop" /\ paused /\ ~quitRequested
    /\ ReplayPaused(FALSE, k)
    /\ UNCHANGED <<variant, drone, log, failedStep, path, last>>

C15_PolledWhilePaused ==
    (variant = "replay" /\ pc = "loop" /\ paused) =>
        /\ ENABLED (ReplayTick(MissionEnv) /\ exitCause' = "quit")
        /\ ENABLED (ReplayTick(MissionEnv) /\ ~paused' /\ pc' = "loop")
        /\ ENABLED (ReplayTick(MissionEnv) /\ fullscreen' # fullscreen)
        /\ ENABLED (ReplayTick(MissionEnv) /\ confidence' # confidence)
        /\ Len(saves) < MaxSaves => ENABLED (ReplayTick(MissionEnv) /\ saves' # saves)

C15_PausedFreezesAcquisition ==
    /\ []C15_PolledWhilePaused
    /\ [][(variant = "replay" /\ pc = "loop") =>
            /\ paused => UNCHANGED <<stream, frame_count, total, history, anomaly_count,
                                      annotated, lastCapture>>
            /\ stream' # stream =>
                  /\ ~paused
                  /\ stream' = stream - 1
                  /\ frame_count' = frame_count + 1
                  /\ Len(history') = Len(history) + 1
            /\ PausedCommandStep("q") => (pc' = "finally" /\ exitCause' = "quit")
            /\ PausedCommandStep(" ") => (~paused' /\ pc' = "loop")
            /\ PausedCommandStep("s") =>
                  saves' = Append(saves, [prefix |-> "detection_live_",
                                          digits |-> Format04d(frame_count)])
            /\ \A k \in {"+", "="} :
                  PausedCommandStep(k) =>
                      confidence' = Min(ConfidenceMax, confidence + ConfidenceStep)
            /\ \A k \in {"-", "_"} :
                  PausedCommandStep(k) =>
                      confidence' = Max(ConfidenceMin, confidence - ConfidenceStep)
            /\ \A k \in {"f", "F"} : PausedCommandStep(k) => fullscreen' = ~fullscreen]_vars

\* the run was paused on frame 1, two save commands were dispatched while
\* it was paused, and after the resume frame 2 has been read
C15_Witness ==
    /\ variant = "replay" /\ pc = "loop" /\ ~paused
    /\ frame_count = 2
    /\ Len(saves) = 2 /\ saves[1] = saves[2]
    /\ saves[1].digits = <<0, 0, 0, 1>>

(***************************************************************************)
(* C16.  Replay entry point: a confidence argument outside [0,1] is        *)
(* rejected before any processing: main returns, the detector is not       *)
(* constructed, the video is not opened, no iteration runs.  A confidence  *)
(* inside [0,1] (0.4 when the argument is omitted) is the threshold the    *)
(* loop starts with: main passes it on and nothing before the loop changes *)
(* it.                                                                     *)
(***************************************************************************)
\* the confidence main reads from argument a, in hundredths
ArgConfidence(a) == IF a = <<>> THEN 40 ELSE a[1]

C16_NothingRunsAfterRejection ==
    failedStep = "confidence" =>
        /\ variant = "replay" /\ pc = "done"
        /\ log = <<>> /\ stream = 0
        /\ frame_count = 0 /\ history = <<>> /\ lastCapture = "none"

C16_RejectsOutOfRangeConfidence ==
    /\ []C16_NothingRunsAfterRejection
    /\ [][/\ \A a \in MoreConfidenceArgs :
               (variant = "replay" /\ pc = "main" /\ ReplayMainArgs(TRUE, a)) =>
                   IF ArgConfidence(a) < 0 \/ ArgConfidence(a) > 100
                   THEN pc' = "done" /\ failedStep' = "confidence" /\ log' = <<>>
                   ELSE /\ pc' = "exists" /\ failedStep' = "none"
                        /\ confidence' = ArgConfidence(a)
          /\ (variant = "replay" /\ pc \in {"exists", "detector", "open"}) =>
               confidence' = confidence]_vars

\* main has rejected its confidence argument and returned
C16_Witness ==
    /\ variant = "replay" /\ pc = "done" /\ failedStep = "confidence"
    /\ confidence = ReplayDefaultConfidence

(***************************************************************************)
(* C17.  TrainedCrackDetector.detect: whenever inference or the extraction *)
(* of its result fails, detect does not raise and returns a count of 0, an *)
(* unmodified copy of the frame, an empty list of detections and the       *)
(* confidence it was passed.                                               *)
(* Stated as the claim has it; the code does not satisfy it (a failure in  *)
(* the extraction of one box is swallowed and the count is kept).          *)
(***************************************************************************)
\* the call of detect recorded in last met a failure inside inference or
\* inside the extraction of a box
DetectMetFailure ==
    /\ last.op = "detect"
    /\ last.args.hasModel
    /\ last.args.inf.kind = "raise" \/ (last.args.inf.kind = "boxes" /\ last.args.inf.bad > 0)

C17_DetectFailureGivesZeroResult ==
    DetectMetFailure =>
        last.ret = [raised |-> FALSE, anomaly_count |-> 0, image_annotated |-> "copy",
                    cracks |-> 0, confidence |-> last.args.conf]

(***************************************************************************)
(* C18.  DroneController.takeoff returns True only after the blocking      *)
(* takeoff command has completed, and then home_location is the position   *)
(* read after it; when takeoff returns False, home_location is what it was *)
(* before the call.  Nothing else of the controller changes.               *)
(***************************************************************************)
C18_TakeoffSetsHomeOnSuccessOnly ==
    last.op = "takeoff" =>
        /\ last.ret = TRUE =>
              /\ last.calls = <<Call("takeoff", TRUE), Call("getMultirotorState", TRUE)>>
              /\ drone.home_location = last.args.pos
        /\ last.ret = FALSE =>
              /\ drone.home_location = last.before.home_location
              /\ last.calls # <<Call("takeoff", TRUE), Call("getMultirotorState", TRUE)>>
        /\ drone.client = last.before.client
        /\ drone.is_connected = last.before.is_connected

\* a second takeoff, from another place than the first, has succeeded
C18_Witness ==
    /\ last.op = "takeoff" /\ last.ret = TRUE
    /\ last.before.home_location = "position"
    /\ drone.home_location = "elsewhere"

(***************************************************************************)
(* C19.  Both variants: within one run no save command writes to a file    *)
(* name that an earlier save command of the run has used, saves issued     *)
(* while paused included.                                                  *)
(* Stated as the claim has it; the code does not satisfy it (the name is   *)
(* made of frame_count, which stands still while the replay is paused).    *)
(***************************************************************************)
C19_SaveNamesDistinct ==
    \A i \in 1..Len(saves), j \in 1..Len(saves) : i # j => saves[i] # saves[j]

(***************************************************************************)
(* C20.  DroneController.land returns True only if the landing command     *)
(* completed and the disarm that follows it succeeded; whenever it returns *)
(* False, the vehicle has not been both landed and disarmed by the call.   *)
(* Stated as the claim has it; the code does not satisfy it (the result of *)
(* disarm is dropped).                                                     *)
(***************************************************************************)
LandedAndDisarmed == <<Call("land", TRUE), Call("disarm", TRUE)>>

C20_LandReportsLandedAndDisarmed ==
    last.op = "land" =>
        /\ last.ret = TRUE => last.calls = LandedAndDisarmed
        /\ last.ret = FALSE => last.calls # LandedAndDisarmed

(***************************************************************************)
(* C21.  DroneController.return_to_launch returns False and issues no      *)
(* motion command when home_location is unset; it returns True only if the *)
(* flight to the home position succeeded, and False when fly_to_position   *)
(* failed.                                                                 *)
(* Stated as the claim has it; the code does not satisfy it (the result of *)
(* fly_to_position is dropped).                                            *)
(***************************************************************************)
C21_ReturnToLaunchReportsFlight ==
    last.op = "return_to_launch" =>
        /\ last.before.home_location = "None" => (last.ret = FALSE /\ last.calls = <<>>)
        /\ last.ret = TRUE <=> last.calls = <<Call("moveToPosition", TRUE)>>

(***************************************************************************)
(* C22.  DroneController, for every sequence of calls: is_connected        *)
(* implies that there is a client; disconnect leaves is_connected False    *)
(* and the client None, and changes nothing when there was no client;      *)
(* every command called while there is no client (before connect, after    *)
(* disconnect) returns its failure value, issues nothing and leaves        *)
(* is_connected, client and home_location as they were.                    *)
(***************************************************************************)
\* the commands that return False on failure, and those that return None
BoolCommands ==
    {"enable_api_control", "arm", "disarm", "takeoff", "land", "fly_to_position"}
NoneCommands == {"get_drone_state", "get_position", "capture_image"}

C22_ControllerInvariants ==
    /\ drone.is_connected => drone.client
    /\ last.op = "disconnect" =>
          /\ ~drone.client /\ ~drone.is_connected
          /\ drone.home_location = last.before.home_location
          /\ ~last.before.client => (drone = last.before /\ last.calls = <<>>)
    /\ (last.op \in BoolCommands /\ ~last.before.client) =>
          (last.ret = FALSE /\ last.calls = <<>> /\ drone = last.before)
    /\ (last.op \in NoneCommands /\ ~last.before.client) =>
          (last.ret = "None" /\ last.calls = <<>> /\ drone = last.before)

\* a land called after disconnect, on a controller that had taken off
C22_Witness ==
    /\ last.op = "land"
    /\ ~last.before.client /\ last.before.home_location # "None"
    /\ last.ret = FALSE

(***************************************************************************)
(* C23.  Both variants: dispatching one command changes only that          *)
(* command's own state.  Increase and decrease change only the threshold,  *)
(* toggle-fullscreen only fullscreen (two toggles restore it), toggle-     *)
(* pause only paused, save none of the loop's fields; no command changes   *)
(* frame_count or total (an iteration counts its frame and adds its        *)
(* detections the same way whatever the key); an iteration without a key   *)
(* changes none of threshold, fullscreen, paused.                          *)
(***************************************************************************)
\* the replay iteration that reads a frame, raises nothing and polls key k
\* with no quit pending
ReplayCommandStep(k) ==
    /\ variant = "replay" /\ pc = "loop" /\ ~paused /\ stream > 0 /\ ~quitRequested
    /\ \E inf \in InferenceOutcomes(MaxBoxes) : ReplayFrame(inf, FALSE, k)
    /\ UNCHANGED <<variant, drone, log, failedStep, path, last>>

\* the step dispatches key k
CommandStep(k) == LiveCommandStep(k) \/ ReplayCommandStep(k) \/ PausedCommandStep(k)

\* the keys of each command, per variant
IncreaseKeys == {"+", "="}
DecreaseKeys == {"-", "_"}
FullscreenKeys == IF variant = "live" THEN {"f"} ELSE {"f", "F"}
PauseKeys == IF variant = "live" THEN {} ELSE {" "}
NoCommandKeys == IF variant = "live" THEN {"none", "F", " "} ELSE {"none"}

\* what the iteration itself does to the counters, whatever the key: a
\* paused iteration nothing, any other counts one frame and adds the count
\* its detector call reported
CountersAsWithoutKey ==
    IF variant = "replay" /\ paused
    THEN UNCHANGED <<frame_count, total>>
    ELSE /\ frame_count' = frame_count + 1
         /\ total' = total + (IF history'[Len(history')].raised
                                THEN 0 ELSE history'[Len(history')].count)

C23_TwoTogglesRestore ==
    \A b \in BOOLEAN :
        LET st == [quit |-> FALSE, paused |-> FALSE, fullscreen |-> b, confidence |-> 50]
        IN /\ LiveDispatch("f", LiveDispatch("f", st)).fullscreen = b
           /\ ReplayDispatch("f", ReplayDispatch("F", st)).fullscreen = b

C23_CommandsChangeOwnStateOnly ==
    /\ []C23_TwoTogglesRestore
    /\ [][\A k \in Keys :
             CommandStep(k) =>
                 /\ CountersAsWithoutKey
                 /\ k \in IncreaseKeys \cup DecreaseKeys => UNCHANGED <<fullscreen, paused, saves>>
                 /\ k \in FullscreenKeys =>
                       (fullscreen' = ~fullscreen /\ UNCHANGED <<confidence, paused, saves>>)
                 /\ k \in PauseKeys =>
                       (paused' = ~paused /\ UNCHANGED <<confidence, fullscreen, saves>>)
                 /\ k = "s" =>
                       (Len(saves') = Len(saves) + 1
                          /\ UNCHANGED <<confidence, fullscreen, paused>>)
                 /\ k \in NoCommandKeys => UNCHANGED <<confidence, fullscreen, paused, saves>>
                 /\ k # "q" => pc' = "loop"]_vars

\* a live run in which a frame was saved and the threshold raised, with
\* fullscreen as it started
C23_Witness ==
    /\ variant = "live" /\ pc = "loop"
    /\ frame_count = 2 /\ Len(saves) = 1
    /\ confidence = LiveInitialConfidence + ConfidenceStep
    /\ ~fullscreen

(***************************************************************************)
(* C24.  Replay variant: the playback indicator on the frame the loop      *)
(* presents agrees with the paused flag: a frame presented while paused is *)
(* true says PAUSED, a frame presented while paused is false says PLAYING. *)
(* Stated as the claim has it; the code does not satisfy it (the overlay   *)
(* is rendered only while not paused, and presented again unchanged while  *)
(* paused).                                                                *)
(***************************************************************************)
C24_IndicatorAgreesWithPaused ==
    (variant = "replay" /\ shown.indicator # "none") =>
        shown.indicator = (IF shown.paused THEN "PAUSED" ELSE "PLAYING")

====
